---- MODULE Spec2Model ----
(***************************************************************************)
(* Model of src/main.py: a FastAPI application whose routes declare typed  *)
(* path, query, cookie and body parameters.  One request is in flight at a *)
(* time (the handlers share no state): it is received, looked up in the    *)
(* route table in registration order, its declared fields are validated    *)
(* one after the other with the errors accumulated, and then either the    *)
(* handler runs or a 422 response is returned.                             *)
(*                                                                         *)
(* Text is a sequence of symbols.  A symbol is a one-character string (a   *)
(* digit, "-", ".", " ") or an opaque word such as "users" standing for a  *)
(* run of letters.  Floating-point values are held in tenths (10.5 is 105).*)
(***************************************************************************)
EXTENDS Integers, Sequences, FiniteSets, TLC

VARIABLES pc, req, route, pparams, todo, errors, values, calls, resp

vars == <<pc, req, route, pparams, todo, errors, values, calls, resp>>

\* ------------------------------------------------------------------ bounds

\* How far below a lower limit and above an upper limit the sampled numbers go.
Margin == 2
\* Largest instant of the datetime type (datetime.max), in abstract ticks.
DateTimeMax == 4
\* Largest magnitude of a sampled timedelta, in the same ticks.
DeltaMax == 2
\* Largest sampled price and tax, in tenths.
MaxMoney == 2

\* ------------------------------------------------------- optional values

None == <<>>
Some(v) == <<v>>
IsSome(o) == Len(o) = 1
Get(o) == o[1]

\* ------------------------------------------------------------------- text

Digits == {"0", "1", "2", "3", "4", "5", "6", "7", "8", "9"}

DigitVal(c) ==
  CASE c = "0" -> 0 [] c = "1" -> 1 [] c = "2" -> 2 [] c = "3" -> 3
    [] c = "4" -> 4 [] c = "5" -> 5 [] c = "6" -> 6 [] c = "7" -> 7
    [] c = "8" -> 8 [] c = "9" -> 9

DigitChar(d) ==
  CASE d = 0 -> "0" [] d = 1 -> "1" [] d = 2 -> "2" [] d = 3 -> "3"
    [] d = 4 -> "4" [] d = 5 -> "5" [] d = 6 -> "6" [] d = 7 -> "7"
    [] d = 8 -> "8" [] d = 9 -> "9"

AllDigits(s) == Len(s) > 0 /\ \A i \in 1..Len(s) : s[i] \in Digits

RECURSIVE NatOf(_)
NatOf(s) == IF Len(s) = 0 THEN 0
            ELSE 10 * NatOf(SubSeq(s, 1, Len(s) - 1)) + DigitVal(s[Len(s)])

RECURSIVE NatText(_)
NatText(n) == IF n < 10 THEN <<DigitChar(n)>>
              ELSE Append(NatText(n \div 10), DigitChar(n % 10))

\* The decimal text of an integer, as a client writes it in a URL.
IntText(n) == IF n < 0 THEN <<"-">> \o NatText(0 - n) ELSE NatText(n)

\* The decimal text of a value held in tenths: 105 is "10.5", 10 is "1.0".
TenthsText(t) ==
  LET a == IF t < 0 THEN 0 - t ELSE t
      body == NatText(a \div 10) \o <<".", DigitChar(a % 10)>>
  IN IF t < 0 THEN <<"-">> \o body ELSE body

\* str -> int as the validator parses it: an optional sign and digits only.
ParseInt(s) ==
  LET u == IF Len(s) > 0 /\ s[1] = "-" THEN Tail(s) ELSE s
  IN IF AllDigits(u)
     THEN Some(IF u = s THEN NatOf(u) ELSE 0 - NatOf(u))
     ELSE None

\* str -> float, in tenths: an optional sign, digits, and optionally a point
\* followed by one digit (the sampled texts carry at most one decimal).
ParseFloat(s) ==
  LET u == IF Len(s) > 0 /\ s[1] = "-" THEN Tail(s) ELSE s
      n == Len(u)
      whole == n >= 1 /\ AllDigits(u)
      frac == n >= 3 /\ u[n - 1] = "." /\ u[n] \in Digits
              /\ AllDigits(SubSeq(u, 1, n - 2))
      mag == IF whole THEN 10 * NatOf(u)
             ELSE 10 * NatOf(SubSeq(u, 1, n - 2)) + DigitVal(u[n])
  IN IF whole \/ frac THEN Some(IF u = s THEN mag ELSE 0 - mag) ELSE None

\* str -> bool: the spellings the validator accepts.
ParseBool(s) ==
  IF s \in {<<"true">>, <<"1">>, <<"on">>, <<"yes">>} THEN Some(TRUE)
  ELSE IF s \in {<<"false">>, <<"0">>, <<"off">>, <<"no">>} THEN Some(FALSE)
  ELSE None

\* ----------------------------------------------------------- route table

Lit(w) == [lit |-> <<w>>]
Slash == [lit |-> <<>>]
Param(n) == [param |-> n]
Rest(n) == [rest |-> n]

R(m, t, h) == [method |-> m, tmpl |-> t, handler |-> h]

\* The routes in the order the decorators register them.  A template is the
\* path split at "/": "/items/" is <<items, empty>>, "/" is <<empty>>.
Routes == <<
  R("GET", <<Slash>>, "root"),
  R("GET", <<Lit("hello"), Param("name")>>, "say_hello"),
  R("GET", <<Lit("users"), Lit("me")>>, "read_current_user"),
  R("GET", <<Lit("users"), Param("user_id")>>, "read_user"),
  R("GET", <<Lit("users")>>, "read_users"),
  R("GET", <<Lit("users"), Param("user_id"), Lit("items"), Param("item_id")>>,
    "read_user_item"),
  R("GET", <<Lit("models"), Param("model_name")>>, "get_model"),
  R("GET", <<Lit("files"), Rest("file_path")>>, "read_file"),
  R("POST", <<Lit("items"), Slash>>, "create_item"),
  R("PUT", <<Lit("items"), Param("item_id")>>, "update_item"),
  R("GET", <<Lit("items"), Param("item_id")>>, "read_item"),
  R("GET", <<Lit("usernames"), Slash>>, "get_usernames"),
  R("GET", <<Lit("products"), Slash>>, "get_product"),
  R("GET", <<Lit("search"), Slash>>, "search_items"),
  R("GET", <<Lit("deprecated"), Slash>>, "deprecated_param"),
  R("GET", <<Lit("validate"), Slash>>, "validate_input"),
  R("GET", <<Lit("products"), Param("product_id")>>, "get_product_by_id"),
  R("GET", <<Lit("sizes"), Param("item_id")>>, "get_size"),
  R("GET", <<Lit("items-filter"), Slash>>, "read_items_filter"),
  R("PUT", <<Lit("process"), Param("item_id")>>, "process_item"),
  R("GET", <<Lit("cookie"), Slash>>, "read_cookie"),
  R("GET", <<Lit("header"), Slash>>, "read_header"),
  R("GET", <<Lit("multi-header"), Slash>>, "read_multi_header"),
  R("GET", <<Lit("items"), Slash>>, "read_items_cookies")
>>

IsLit(e) == "lit" \in DOMAIN e
IsParam(e) == "param" \in DOMAIN e
IsRest(e) == "rest" \in DOMAIN e

\* One template element against one path segment: a literal matches itself,
\* a {param} matches any non-empty segment.
SegMatch(e, seg) ==
  IF IsLit(e) THEN seg = e.lit ELSE IsParam(e) /\ Len(seg) > 0

HasRest(t) == Len(t) > 0 /\ IsRest(t[Len(t)])

\* A template against a whole path; a trailing {name:path} takes what is left.
Matches(t, path) ==
  IF HasRest(t)
  THEN /\ Len(path) >= Len(t)
       /\ \A i \in 1..(Len(t) - 1) : SegMatch(t[i], path[i])
  ELSE /\ Len(path) = Len(t)
       /\ \A i \in 1..Len(t) : SegMatch(t[i], path[i])

RECURSIVE JoinSegs(_)
JoinSegs(segs) ==
  IF Len(segs) = 0 THEN <<>>
  ELSE IF Len(segs) = 1 THEN segs[1]
  ELSE segs[1] \o <<"/">> \o JoinSegs(Tail(segs))

\* The raw path parameters a matching template captures.
Captured(t, path) ==
  LET ps == {i \in 1..Len(t) : ~IsLit(t[i])}
      nameOf(i) == IF IsParam(t[i]) THEN t[i].param ELSE t[i].rest
      textOf(i) == IF IsParam(t[i]) THEN path[i]
                   ELSE JoinSegs(SubSeq(path, i, Len(path)))
  IN [n \in {nameOf(i) : i \in ps} |->
        textOf(CHOOSE i \in ps : nameOf(i) = n)]

FullMatches(m, path) ==
  {i \in 1..Len(Routes) : Routes[i].method = m /\ Matches(Routes[i].tmpl, path)}

PathMatches(path) == {i \in 1..Len(Routes) : Matches(Routes[i].tmpl, path)}

Lowest(S) == CHOOSE i \in S : \A j \in S : i <= j
Highest(S) == CHOOSE i \in S : \A j \in S : i >= j

\* The route that serves a request when several match.
Selected(S) == Lowest(S)

RECURSIVE StripSlashes(_)
StripSlashes(path) ==
  IF Len(path) > 0 /\ path[Len(path)] = <<>>
  THEN StripSlashes(SubSeq(path, 1, Len(path) - 1))
  ELSE path

\* The path with its trailing slash removed, or added when it has none.
Toggled(path) ==
  IF path[Len(path)] = <<>> THEN StripSlashes(path) ELSE Append(path, <<>>)

\* The router's answer: the first route matching path and method; else 405
\* when some route matches the path alone; else a redirect when the path with
\* its trailing slash toggled matches a route; else 404.
Lookup(m, path) ==
  IF FullMatches(m, path) # {}
    THEN [kind |-> "route", idx |-> Selected(FullMatches(m, path))]
  ELSE IF PathMatches(path) # {}
    THEN [kind |-> "method_not_allowed", idx |-> 0]
  ELSE IF path # <<<<>>>> /\ Len(Toggled(path)) > 0
          /\ PathMatches(Toggled(path)) # {}
    THEN [kind |-> "redirect", idx |-> 0]
  ELSE [kind |-> "not_found", idx |-> 0]

\* ------------------------------------------------------------ raw values

\* A raw value is tagged with its wire type.  URL text and cookies are always
\* str; a JSON body also carries numbers (in tenths), null, and the literal
\* forms of an instant (dt), a duration (td) and a time of day (tm).
Str(s) == [str |-> s]
Num(n) == [num |-> n]
Null == [null |-> TRUE]
Instant(t, aware) == [dt |-> [t |-> t, aware |-> aware]]
Duration(n) == [td |-> n]
TimeOfDay(n) == [tm |-> n]
Tag(raw, k) == k \in DOMAIN raw

\* ----------------------------------------------------- declared constants

ItemIdGe == 1
ItemIdLe == 1000
\* gt=0, lt=10.5, in tenths.
SizeGt == 0
SizeLt == 105
LimitDefault == 100
LimitGt == 0
LimitLe == 100
OffsetDefault == 0
OffsetGe == 0
UsernameMinLen == 3
UsernameMaxLen == 20
KeywordMinLen == 2
KeywordMaxLen == 30
ProductIdGe == 1
ProductIdLe == 1000
\* ^PROD-[0-9]{4}$
ProductCodePrefix == <<"P", "R", "O", "D", "-">>
ProductCodeDigits == 4

ModelNameValues == {<<"alexnet">>, <<"resent">>, <<"lenet">>}

OrderByValues == {<<"created_at">>, <<"updated_at">>}
OrderByDefault == <<"created_at">>

\* ------------------------------------------------------------ field specs

\* name: the handler's name for the value; wire: the name on the wire;
\* required, or else the default; nullable: None is a value of the type;
\* cons: the declared constraints, in the order they are applied.
Field(name, wire, type, required, default, nullable, cons) ==
  [name |-> name, wire |-> wire, type |-> type, required |-> required,
   default |-> default, nullable |-> nullable, cons |-> cons]

Req(name, type) == Field(name, name, type, TRUE, None, FALSE, <<>>)
ReqC(name, type, cons) == Field(name, name, type, TRUE, None, FALSE, cons)
\* T | None = None
Opt(name, type) == Field(name, name, type, FALSE, None, TRUE, <<>>)
OptAlias(name, wire, type) == Field(name, wire, type, FALSE, None, TRUE, <<>>)
\* T = default
Def(name, type, d, cons) == Field(name, name, type, FALSE, Some(d), FALSE, cons)

Ge(n) == [k |-> "ge", n |-> n]
Le(n) == [k |-> "le", n |-> n]
Gt(n) == [k |-> "gt", n |-> n]
Lt(n) == [k |-> "lt", n |-> n]
OneOf(S) == [k |-> "in", s |-> S]
MinLen(n) == [k |-> "min_length", n |-> n]
MaxLen(n) == [k |-> "max_length", n |-> n]
Pattern(prefix, digits) == [k |-> "pattern", prefix |-> prefix, digits |-> digits]
NoSpaces == [k |-> "no_spaces"]

\* A declared parameter of a handler: where it is read from and the fields
\* it is made of (one for a scalar, the members for a model).  whole: the
\* parameter is the entire JSON body, missing as one when there is no body.
P(name, src, whole, fields) ==
  [name |-> name, src |-> src, whole |-> whole, fields |-> fields]
Scalar(src, f) == P(f.name, src, FALSE, <<f>>)

ItemFields ==
  <<Req("name", "str"), Opt("description", "str"),
    Req("price", "float"), Opt("tax", "float")>>

FilterParamsFieldsFromZero ==
  <<Def("limit", "int", LimitDefault, <<Ge(LimitGt), Le(LimitLe)>>),
    Def("offset", "int", OffsetDefault, <<Ge(OffsetGe)>>),
    Def("order_by", "str", OrderByDefault, <<OneOf(OrderByValues)>>),
    Def("tags", "list", <<>>, <<>>)>>

FilterParamsFields ==
  <<Def("limit", "int", LimitDefault, <<Gt(LimitGt), Le(LimitLe)>>),
    Def("offset", "int", OffsetDefault, <<Ge(OffsetGe)>>),
    Def("order_by", "str", OrderByDefault, <<OneOf(OrderByValues)>>),
    Def("tags", "list", <<>>, <<>>)>>

\* The two declarations of the class Cookies, and the GET /items/ handler
\* whose annotation names Cookies, by source line.
CookiesDecls ==
  <<[line |-> 207, forbid_extra |-> FALSE], [line |-> 226, forbid_extra |-> TRUE]>>
ReadItemsCookiesDef == [line |-> 218]

\* The declaration an annotation evaluated at `line` refers to: the last one
\* already executed when the def statement runs.
BoundAt(line) ==
  LET before == {i \in 1..Len(CookiesDecls) : CookiesDecls[i].line < line}
  IN CookiesDecls[CHOOSE i \in before : \A j \in before : j <= i]

\* Both declarations declare the same three members.
CookiesFields ==
  <<Req("session_id", "str"), Opt("fatebook_tracker", "str"),
    Opt("googall_tracker", "str")>>

\* Whether the cookie model bound to GET /items/ rejects undeclared cookies.
CookiesForbidExtra == BoundAt(ReadItemsCookiesDef.line).forbid_extra

ReadUserItemParamsSwapped ==
  <<Scalar("path", Req("user_id", "str")),
    Scalar("path", Req("item_id", "int")),
    Scalar("query", Opt("q", "str")),
    Scalar("query", Def("short", "bool", FALSE, <<>>))>>

ReadUserItemParams ==
  <<Scalar("path", Req("user_id", "int")),
    Scalar("path", Req("item_id", "str")),
    Scalar("query", Opt("q", "str")),
    Scalar("query", Def("short", "bool", FALSE, <<>>))>>

GetSizeParamsInclusive ==
  <<Scalar("path", ReqC("item_id", "int", <<Ge(ItemIdGe), Le(ItemIdLe)>>)),
    Scalar("query", ReqC("size", "float", <<Gt(SizeGt), Le(SizeLt)>>))>>

GetSizeParams ==
  <<Scalar("path", ReqC("item_id", "int", <<Ge(ItemIdGe), Le(ItemIdLe)>>)),
    Scalar("query", ReqC("size", "float", <<Gt(SizeGt), Lt(SizeLt)>>))>>

ProcessItemParams ==
  <<Scalar("path", Req("item_id", "uuid")),
    Scalar("body", Req("start_datetime", "datetime")),
    Scalar("body", Req("end_datetime", "datetime")),
    Scalar("body", Req("process_after", "timedelta")),
    Scalar("body", Opt("repeat_at", "time"))>>

\* The declared parameters of each handler, in validation order.
Schema(h) ==
  CASE h = "read_user" -> <<Scalar("path", Req("user_id", "str"))>>
    [] h = "say_hello" -> <<Scalar("path", Req("name", "str"))>>
    [] h = "read_user_item" -> ReadUserItemParams
    [] h = "get_model" ->
         <<Scalar("path", ReqC("model_name", "str", <<OneOf(ModelNameValues)>>))>>
    [] h = "read_file" -> <<Scalar("path", Req("file_path", "str"))>>
    [] h = "create_item" -> <<P("item", "body", TRUE, ItemFields)>>
    [] h = "update_item" ->
         <<Scalar("path", Req("item_id", "int")),
           Scalar("query", Opt("q", "str")),
           P("item", "body", TRUE, ItemFields)>>
    [] h = "read_item" ->
         <<Scalar("path", Req("item_id", "int")),
           Scalar("query", OptAlias("q", "item-query", "str"))>>
    [] h = "get_usernames" ->
         <<Scalar("query", ReqC("username", "str",
                                <<MinLen(UsernameMinLen), MaxLen(UsernameMaxLen)>>))>>
    [] h = "get_product" ->
         <<Scalar("query", ReqC("code", "str",
                                <<Pattern(ProductCodePrefix, ProductCodeDigits)>>))>>
    [] h = "search_items" ->
         <<Scalar("query", Field("keyword", "q", "str", TRUE, None, FALSE,
                                 <<MinLen(KeywordMinLen), MaxLen(KeywordMaxLen)>>))>>
    [] h = "deprecated_param" ->
         <<Scalar("query", Opt("old_param", "str")),
           Scalar("query", Opt("new_param", "str"))>>
    [] h = "validate_input" ->
         <<Scalar("query", ReqC("text", "str", <<NoSpaces>>))>>
    [] h = "get_product_by_id" ->
         <<Scalar("path", ReqC("product_id", "int",
                               <<Ge(ProductIdGe), Le(ProductIdLe)>>))>>
    [] h = "get_size" -> GetSizeParams
    [] h = "read_items_filter" ->
         <<P("filter_query", "query", FALSE, FilterParamsFields)>>
    [] h = "process_item" -> ProcessItemParams
    [] h = "read_cookie" -> <<Scalar("cookie", Opt("ads_id", "str"))>>
    [] h = "read_header" ->
         <<Scalar("header", OptAlias("user_agent", "user-agent", "str"))>>
    [] h = "read_multi_header" ->
         <<Scalar("header", OptAlias("x_token", "x-token", "list"))>>
    [] h = "read_items_cookies" ->
         <<P("cookies", "cookie", FALSE, CookiesFields)>>
    [] OTHER -> <<>>

\* ------------------------------------------------------------- validation

HexGroups == {"3fa85f64", "5717", "4562", "b3fc", "2c963f66afa6"}

\* Five groups of hexadecimal digits separated by "-".
IsUUID(s) ==
  /\ Len(s) = 9
  /\ \A i \in 1..9 : IF i % 2 = 0 THEN s[i] = "-" ELSE s[i] \in HexGroups

\* The typed value of a raw value, or None when it cannot be coerced.
Coerce(type, raw) ==
  CASE type = "str" -> IF Tag(raw, "str") THEN Some(raw.str) ELSE None
    [] type = "int" ->
         IF Tag(raw, "str") THEN ParseInt(raw.str)
         ELSE IF Tag(raw, "num") /\ raw.num % 10 = 0 THEN Some(raw.num \div 10)
         ELSE None
    [] type = "float" ->
         IF Tag(raw, "str") THEN ParseFloat(raw.str)
         ELSE IF Tag(raw, "num") THEN Some(raw.num)
         ELSE None
    [] type = "bool" -> IF Tag(raw, "str") THEN ParseBool(raw.str) ELSE None
    [] type = "uuid" ->
         IF Tag(raw, "str") /\ IsUUID(raw.str) THEN Some(raw.str) ELSE None
    [] type = "datetime" -> IF Tag(raw, "dt") THEN Some(raw.dt) ELSE None
    [] type = "timedelta" -> IF Tag(raw, "td") THEN Some(raw.td) ELSE None
    [] type = "time" -> IF Tag(raw, "tm") THEN Some(raw.tm) ELSE None
    [] type = "list" -> IF Tag(raw, "list") THEN Some(raw.list) ELSE None

Holds(v, c) ==
  CASE c.k = "ge" -> v >= c.n
    [] c.k = "le" -> v <= c.n
    [] c.k = "gt" -> v > c.n
    [] c.k = "lt" -> v < c.n
    [] c.k = "in" -> v \in c.s
    [] c.k = "min_length" -> Len(v) >= c.n
    [] c.k = "max_length" -> Len(v) <= c.n
    [] c.k = "pattern" ->
         /\ Len(v) = Len(c.prefix) + c.digits
         /\ SubSeq(v, 1, Len(c.prefix)) = c.prefix
         /\ AllDigits(SubSeq(v, Len(c.prefix) + 1, Len(v)))
    [] c.k = "no_spaces" -> \A i \in 1..Len(v) : v[i] # " "

AllHold(v, cons) == \A i \in 1..Len(cons) : Holds(v, cons[i])

\* One field against its raw value (None: not sent).
FieldResult(f, rawopt) ==
  IF rawopt = None
  THEN IF f.required THEN [err |-> "missing"] ELSE [ok |-> f.default]
  ELSE LET raw == Get(rawopt)
           c == Coerce(f.type, raw)
       IN IF Tag(raw, "null")
          THEN IF f.nullable THEN [ok |-> None] ELSE [err |-> "type"]
          ELSE IF c = None THEN [err |-> "type"]
          ELSE IF ~AllHold(Get(c), f.cons) THEN [err |-> "constraint"]
          ELSE [ok |-> c]

Last(s) == s[Len(s)]

\* Where a field's raw value comes from in the request.
RawOf(src, f, rq, pp) ==
  CASE src = "path" -> Some(Str(pp[f.name]))
    [] src = "query" ->
         IF f.wire \notin DOMAIN rq.query THEN None
         ELSE IF f.type = "list" THEN Some([list |-> rq.query[f.wire]])
         ELSE Some(Str(Last(rq.query[f.wire])))
    [] src = "cookie" ->
         IF f.wire \in DOMAIN rq.cookies THEN Some(Str(rq.cookies[f.wire]))
         ELSE None
    [] src = "header" ->
         IF f.wire \notin DOMAIN rq.headers THEN None
         ELSE IF f.type = "list" THEN Some([list |-> rq.headers[f.wire]])
         ELSE Some(Str(rq.headers[f.wire][1]))
    [] src = "body" ->
         IF rq.body = None THEN None
         ELSE IF f.wire \in DOMAIN Get(rq.body) THEN Some(Get(rq.body)[f.wire])
         ELSE None

Err(name, kind) == [field |-> name, kind |-> kind]

FieldNames(fields) == {fields[i].name : i \in 1..Len(fields)}
FieldNamed(fields, n) == fields[CHOOSE i \in 1..Len(fields) : fields[i].name = n]

\* The cookies a strict cookie model does not declare.
ExtraCookies(p, rq) ==
  IF p.src = "cookie" /\ CookiesForbidExtra
  THEN {Err(n, "extra") :
          n \in DOMAIN rq.cookies \ {p.fields[i].wire : i \in 1..Len(p.fields)}}
  ELSE {}

\* One declared parameter against the request: every member is validated and
\* every failure is reported.
ParamResult(p, rq, pp) ==
  IF p.whole /\ rq.body = None
  THEN [errs |-> {Err(p.name, "missing")}, vals |-> <<>>]
  ELSE LET res(n) == FieldResult(FieldNamed(p.fields, n),
                                 RawOf(p.src, FieldNamed(p.fields, n), rq, pp))
           bad == {n \in FieldNames(p.fields) : "err" \in DOMAIN res(n)}
       IN [errs |-> {Err(n, res(n).err) : n \in bad} \cup ExtraCookies(p, rq),
           vals |-> [n \in FieldNames(p.fields) \ bad |-> res(n).ok]]

StopAtFirstError(td, errs) == td # <<>> /\ errs = {}

\* Validation goes on to the next parameter whatever was found so far.
MoreToValidate(td, errs) == td # <<>>

InvokeRegardless(errs) == TRUE

\* The handler is called only when validation found no error.
MayInvoke(errs) == errs = {}

\* --------------------------------------------------------------- requests

Empty == <<>>

RqH(m, path, query, cookies, headers, body) ==
  [method |-> m, path |-> path, query |-> query, cookies |-> cookies,
   headers |-> headers, body |-> body]

Rq(m, path, query, cookies, body) == RqH(m, path, query, cookies, Empty, body)

\* A key that is sent with one of the values, or not sent at all.
Maybe(k, vs) == {Empty} \cup {k :> v : v \in vs}

Around(lo, hi) == ((lo - Margin)..(lo + Margin)) \cup ((hi - Margin)..(hi + Margin))

BadNumbers == {<<"abc">>, <<"1", ".", "5", "x">>}

ItemIdTexts ==
  {IntText(n) : n \in Around(ItemIdGe, ItemIdLe)} \cup BadNumbers \cup {<<"1", ".", "5">>}

SizeTexts ==
  {TenthsText(t) : t \in Around(SizeGt, SizeLt)}
    \cup {IntText(n) : n \in {0, 1, 10, 11}} \cup BadNumbers

SizesRequests ==
  {Rq("GET", <<<<"sizes">>, i>>, q, Empty, None) :
     i \in ItemIdTexts, q \in Maybe("size", {<<t>> : t \in SizeTexts})}

UserItemRequests ==
  {Rq("GET", <<<<"users">>, u, <<"items">>, i>>, q @@ sh, Empty, None) :
     u \in {IntText(n) : n \in (0 - Margin)..Margin} \cup BadNumbers,
     i \in {<<"7">>, <<"abc">>, <<"x", "-", "1">>},
     q \in Maybe("q", {<<<<"find">>>>, <<<<>>>>}),
     sh \in Maybe("short", {<<<<"true">>>>, <<<<"false">>>>, <<<<"0">>>>,
                            <<<<"yes">>>>, <<<<"maybe">>>>})}

Money == (0 - 1)..MaxMoney

ItemBodies ==
  {None} \cup
  {Some(n @@ d @@ p @@ t) :
     n \in Maybe("name", {Str(<<"a">>), Num(10), Null}),
     d \in Maybe("description", {Str(<<"d">>), Null}),
     p \in Maybe("price", {Num(m) : m \in Money}
                            \cup {Str(<<"1", ".", "5">>), Str(<<"abc">>), Null}),
     t \in Maybe("tax", {Num(m) : m \in Money} \cup {Str(<<"x">>), Null})}

CreateItemRequests ==
  {Rq("POST", <<<<"items">>, <<>>>>, Empty, Empty, b) : b \in ItemBodies}

UpdateItemBodies ==
  {None} \cup
  {Some(n @@ d @@ ("price" :> Num(15)) @@ t) :
     n \in Maybe("name", {Str(<<"a">>)}),
     d \in Maybe("description", {Str(<<"d">>)}),
     t \in Maybe("tax", {Num(0), Num(1)})}

UpdateItemRequests ==
  {Rq("PUT", <<<<"items">>, i>>, q, Empty, b) :
     i \in {<<"5">>, <<"abc">>},
     q \in Maybe("q", {<<<<"find">>>>, <<<<>>>>, <<<<"a">>, <<>>>>}),
     b \in UpdateItemBodies}

ReadItemRequests ==
  {Rq("GET", <<<<"items">>, i>>, q @@ q2, Empty, None) :
     i \in {<<"5">>, <<"abc">>},
     q \in Maybe("item-query", {<<<<"find">>>>, <<<<>>>>}),
     q2 \in Maybe("q", {<<<<"other">>>>})}

FilterRequests ==
  {Rq("GET", <<<<"items-filter">>, <<>>>>, l @@ o @@ ob @@ tg, Empty, None) :
     l \in Maybe("limit", {<<IntText(n)>> : n \in Around(LimitGt, LimitLe)}
                            \cup {<<<<"abc">>>>}),
     o \in Maybe("offset", {<<IntText(n)>> :
                              n \in (OffsetGe - Margin)..(OffsetGe + Margin)}
                             \cup {<<<<"abc">>>>}),
     ob \in Maybe("order_by", {<<<<"created_at">>>>, <<<<"updated_at">>>>,
                               <<<<"name">>>>}),
     tg \in Maybe("tags", {<<<<"a">>>>, <<<<"a">>, <<"b">>>>})}

AUuid == <<"3fa85f64", "-", "5717", "-", "4562", "-", "b3fc", "-", "2c963f66afa6">>

Instants ==
  {Instant(t, a) : t \in 0..DateTimeMax, a \in BOOLEAN} \cup {Str(<<"soon">>)}

ProcessRequests ==
  {Rq("PUT", <<<<"process">>, i>>, Empty, Empty, Some(s @@ e @@ pa @@ ra)) :
     i \in {AUuid, <<"abc">>},
     s \in Maybe("start_datetime", Instants),
     e \in Maybe("end_datetime", Instants),
     pa \in Maybe("process_after", {Duration(n) : n \in (0 - DeltaMax)..DeltaMax}),
     ra \in Maybe("repeat_at", {TimeOfDay(1), Null})}
    \cup {Rq("PUT", <<<<"process">>, AUuid>>, Empty, Empty, None)}

CookieRequests ==
  {Rq("GET", <<<<"items">>, <<>>>>, Empty, s @@ f @@ g @@ x, None) :
     s \in Maybe("session_id", {<<"abc">>}),
     f \in Maybe("fatebook_tracker", {<<"f1">>}),
     g \in Maybe("googall_tracker", {<<"g1">>}),
     x \in Maybe("other_tracker", {<<"x1">>})}

Word == <<"w">>
WithSpace == <<"a", " ", "b">>

\* A text of n characters.
Chars(n) == [i \in 1..n |-> "a"]

Get1(path, q) == Rq("GET", path, q, Empty, None)

HelloRequests == {Get1(<<<<"hello">>, n>>, Empty) : n \in {Word, WithSpace}}

ModelRequests ==
  {Get1(<<<<"models">>, n>>, Empty) : n \in ModelNameValues \cup {<<"resnet">>}}

FileRequests ==
  {Get1(<<<<"files">>>> \o p, Empty) :
     p \in {<<<<>>>>, <<<<"a.txt">>>>, <<<<"home">>, <<"a.txt">>>>}}

UsernameRequests ==
  {Get1(<<<<"usernames">>, <<>>>>, q) :
     q \in Maybe("username",
                 {<<Chars(n)>> : n \in Around(UsernameMinLen, UsernameMaxLen)
                                        \cap (0..(UsernameMaxLen + Margin))})}

ProductCodes ==
  {ProductCodePrefix \o d :
     d \in {<<"1", "2", "3", "4">>, <<"1", "2">>, <<"1", "2", "3", "4", "5">>,
            <<"1", "2", "3", "x">>}}
    \cup {<<"1", "2", "3", "4">>, <<"x">> \o ProductCodePrefix \o <<"1", "2", "3", "4">>}

ProductRequests ==
  {Get1(<<<<"products">>, <<>>>>, q) : q \in Maybe("code", {<<c>> : c \in ProductCodes})}

SearchRequests ==
  {Get1(<<<<"search">>, <<>>>>, q @@ k) :
     q \in Maybe("q", {<<Chars(n)>> : n \in Around(KeywordMinLen, KeywordMaxLen)
                                            \cap (0..(KeywordMaxLen + Margin))}),
     k \in Maybe("keyword", {<<Chars(KeywordMinLen)>>})}

DeprecatedRequests ==
  {Get1(<<<<"deprecated">>, <<>>>>, o @@ n) :
     o \in Maybe("old_param", {<<Word>>}), n \in Maybe("new_param", {<<Word>>})}

ValidateRequests ==
  {Get1(<<<<"validate">>, <<>>>>, q) :
     q \in Maybe("text", {<<Word>>, <<WithSpace>>, <<<<>>>>, <<<<" ">>>>})}

ProductIdRequests ==
  {Get1(<<<<"products">>, i>>, Empty) :
     i \in {IntText(n) : n \in Around(ProductIdGe, ProductIdLe)} \cup BadNumbers}

AdsCookieRequests ==
  {Rq("GET", <<<<"cookie">>, <<>>>>, Empty, c, None) :
     c \in Maybe("ads_id", {Word})}

HeaderRequests ==
  {RqH("GET", <<<<h>>, <<>>>>, Empty, Empty, ua @@ xt, None) :
     h \in {"header", "multi-header"},
     ua \in Maybe("user-agent", {<<Word>>}),
     xt \in Maybe("x-token", {<<Word>>, <<Word, WithSpace>>})}

\* The number of segments of the longest template.
LongestTemplate ==
  LET lens == {Len(Routes[i].tmpl) : i \in 1..Len(Routes)}
  IN CHOOSE n \in lens : \A k \in lens : k <= n

\* Bare paths, for the router: every path of ProbeSegs no longer than the
\* longest template, and the longest ones with a trailing slash added.
ProbeSegs ==
  {<<>>, <<"users">>, <<"me">>, <<"items">>, <<"products">>, <<"5">>, <<"nope">>}
ProbePaths ==
  UNION {[1..n -> ProbeSegs] : n \in 1..LongestTemplate}
    \cup {Append(p, <<>>) : p \in [1..LongestTemplate -> ProbeSegs]}
ProbeRequests ==
  {Rq(m, p, Empty, Empty, None) : m \in {"GET", "POST", "PUT"}, p \in ProbePaths}

Requests ==
  SizesRequests \cup UserItemRequests \cup CreateItemRequests
    \cup UpdateItemRequests \cup ReadItemRequests \cup FilterRequests
    \cup ProcessRequests \cup CookieRequests \cup ProbeRequests
    \cup HelloRequests \cup ModelRequests \cup FileRequests
    \cup UsernameRequests \cup ProductRequests \cup SearchRequests
    \cup DeprecatedRequests \cup ValidateRequests \cup ProductIdRequests
    \cup AdsCookieRequests \cup HeaderRequests

\* ------------------------------------------------------------------ state

NoRequest == Rq("", <<>>, Empty, Empty, None)
NoRoute == [kind |-> "none", idx |-> 0]
NoResponse == [status |-> 0, body |-> Empty]

Init ==
  /\ pc = "idle"
  /\ req = NoRequest
  /\ route = NoRoute
  /\ pparams = Empty
  /\ todo = <<>>
  /\ errors = {}
  /\ values = Empty
  /\ calls = 0
  /\ resp = NoResponse

Handler == IF route.kind = "route" THEN Routes[route.idx].handler ELSE ""

\* A validated argument of the handler: V for a value that is always there
\* (required, or defaulted), O for one that may be None.
V(n) == Get(values[n])
O(n) == values[n]

Respond(status, body) ==
  /\ resp' = [status |-> status, body |-> body]
  /\ pc' = "responded"
  /\ UNCHANGED <<req, route, pparams, todo, errors, values, calls>>

Returns(body) == Respond(200, body)
Raises(exc) == Respond(500, [error |-> exc])

\* ------------------------------------------------------------- dispatcher

Receive ==
  /\ pc = "idle"
  /\ \E r \in Requests : req' = r
  /\ pc' = "received"
  /\ UNCHANGED <<route, pparams, todo, errors, values, calls, resp>>

RouteFound ==
  /\ pc = "received"
  /\ LET l == Lookup(req.method, req.path)
     IN /\ l.kind = "route"
        /\ route' = l
        /\ pparams' = Captured(Routes[l.idx].tmpl, req.path)
        /\ todo' = Schema(Routes[l.idx].handler)
  /\ pc' = "validating"
  /\ UNCHANGED <<req, errors, values, calls, resp>>

NoRouteFound ==
  /\ pc = "received"
  /\ LET l == Lookup(req.method, req.path)
     IN /\ l.kind # "route"
        /\ route' = l
        /\ resp' = [status |-> CASE l.kind = "method_not_allowed" -> 405
                                 [] l.kind = "redirect" -> 307
                                 [] l.kind = "not_found" -> 404,
                    body |-> Empty]
  /\ pc' = "responded"
  /\ UNCHANGED <<req, pparams, todo, errors, values, calls>>

ValidateParam ==
  /\ pc = "validating"
  /\ MoreToValidate(todo, errors)
  /\ LET r == ParamResult(Head(todo), req, pparams)
     IN /\ errors' = errors \cup r.errs
        /\ values' = values @@ r.vals
  /\ todo' = Tail(todo)
  /\ UNCHANGED <<pc, req, route, pparams, calls, resp>>

Invoke ==
  /\ pc = "validating"
  /\ ~MoreToValidate(todo, errors)
  /\ MayInvoke(errors)
  /\ calls' = calls + 1
  /\ pc' = "running"
  /\ UNCHANGED <<req, route, pparams, todo, errors, values, resp>>

Reject ==
  /\ pc = "validating"
  /\ ~MoreToValidate(todo, errors)
  /\ errors # {}
  /\ Respond(422, [detail |-> errors])

Finish ==
  /\ pc = "responded"
  /\ pc' = "idle"
  /\ req' = NoRequest
  /\ route' = NoRoute
  /\ pparams' = Empty
  /\ todo' = <<>>
  /\ errors' = {}
  /\ values' = Empty
  /\ calls' = 0
  /\ resp' = NoResponse

\* --------------------------------------------------------------- handlers

Running(h) == pc = "running" /\ Handler = h

root == Running("root") /\ Returns([message |-> <<"Hello World">>])

read_current_user ==
  Running("read_current_user") /\ Returns([user_id |-> <<"the current user">>])

say_hello ==
  /\ Running("say_hello")
  /\ Returns([message |-> <<"Hello, ">> \o V("name") \o <<"!">>])

read_user == Running("read_user") /\ Returns([user_id |-> V("user_id")])

read_users == Running("read_users") /\ Returns(<<<<"Rick">>, <<"Morty">>>>)

read_user_item ==
  /\ Running("read_user_item")
  /\ Returns([user_id |-> V("user_id"), item_id |-> V("item_id"),
              q |-> O("q"), short |-> V("short")])

get_model ==
  /\ Running("get_model")
  /\ LET model_name == V("model_name")
     IN Returns([model_name |-> model_name,
                 message |->
                   IF model_name = <<"alexnet">> THEN <<"Deep Learning FTW!">>
                   ELSE IF model_name = <<"lenet">> THEN <<"LeCNN all the images">>
                   ELSE <<"Have some ridiculous">>])

read_file == Running("read_file") /\ Returns([file_path |-> V("file_path")])

\* item.dict()
ItemDict ==
  [name |-> V("name"), description |-> O("description"),
   price |-> V("price"), tax |-> O("tax")]

TaxTruthy(tax) == tax # None /\ Get(tax) # 0

\* item.tax is not None
TaxPresent(tax) == tax # None

create_item ==
  /\ Running("create_item")
  /\ Returns(IF TaxPresent(O("tax"))
             THEN ItemDict @@ [price_with_tax |-> V("price") + Get(O("tax"))]
             ELSE ItemDict)

QNotNone(q) == q # None

\* if q:
QTruthy(q) == q # None /\ Get(q) # <<>>

update_item ==
  /\ Running("update_item")
  /\ LET result == [item_id |-> V("item_id")] @@ ItemDict
     IN Returns(IF QTruthy(O("q")) THEN [q |-> Get(O("q"))] @@ result
                ELSE result)

read_item ==
  /\ Running("read_item")
  /\ LET results == [item_id |-> V("item_id")]
     IN Returns(IF QTruthy(O("q")) THEN [q |-> Get(O("q"))] @@ results
                ELSE results)

get_usernames ==
  Running("get_usernames") /\ Returns([username |-> V("username")])

get_product == Running("get_product") /\ Returns([code |-> V("code")])

search_items ==
  Running("search_items") /\ Returns([search_keyword |-> V("keyword")])

deprecated_param ==
  /\ Running("deprecated_param")
  /\ Returns([old_param |-> O("old_param"), new_param |-> O("new_param")])

validate_input == Running("validate_input") /\ Returns([text |-> V("text")])

get_product_by_id ==
  Running("get_product_by_id") /\ Returns([product_id |-> V("product_id")])

get_size ==
  /\ Running("get_size")
  /\ Returns([item_id |-> V("item_id"), size |-> V("size")])

read_items_filter ==
  /\ Running("read_items_filter")
  /\ Returns([limit |-> V("limit"), offset |-> V("offset"),
              order_by |-> V("order_by"), tags |-> V("tags")])

\* datetime + timedelta raises OverflowError outside the datetime range.
InRange(t) == t \in 0..DateTimeMax

\* Whether process_item returns: "" when it does, else the exception raised.
\* start + after overflows the datetime range; end - start_process of one
\* offset-aware and one offset-naive datetime is a TypeError.
ProcessRaises(start, end, after) ==
  IF ~InRange(start.t + after) THEN "OverflowError"
  ELSE IF end.aware # start.aware THEN "TypeError"
  ELSE ""

process_item ==
  /\ Running("process_item")
  /\ LET start == V("start_datetime")
         end == V("end_datetime")
         after == V("process_after")
         start_process == [t |-> start.t + after, aware |-> start.aware]
         duration == end.t - start_process.t
     IN /\ ProcessRaises(start, end, after) = ""
        /\ Returns([item_id |-> V("item_id"), start_datetime |-> start,
                    end_datetime |-> end, process_after |-> after,
                    repeat_at |-> O("repeat_at"),
                    start_process |-> start_process, duration |-> duration])

process_item_raises ==
  /\ Running("process_item")
  /\ LET exc == ProcessRaises(V("start_datetime"), V("end_datetime"),
                              V("process_after"))
     IN exc # "" /\ Raises(exc)

read_cookie == Running("read_cookie") /\ Returns([ads_id |-> O("ads_id")])

read_header ==
  Running("read_header") /\ Returns([user_agent |-> O("user_agent")])

read_multi_header ==
  Running("read_multi_header") /\ Returns([x_token |-> O("x_token")])

read_items_cookies ==
  /\ Running("read_items_cookies")
  /\ Returns([session_id |-> V("session_id"),
              fatebook_tracker |-> O("fatebook_tracker"),
              googall_tracker |-> O("googall_tracker")])

Next ==
  \/ Receive
  \/ RouteFound
  \/ NoRouteFound
  \/ ValidateParam
  \/ Invoke
  \/ Reject
  \/ Finish
  \/ root
  \/ read_current_user
  \/ read_user
  \/ read_users
  \/ read_user_item
  \/ create_item
  \/ update_item
  \/ read_item
  \/ get_size
  \/ read_items_filter
  \/ process_item
  \/ process_item_raises
  \/ read_items_cookies
  \/ say_hello
  \/ get_model
  \/ read_file
  \/ get_usernames
  \/ get_product
  \/ search_items
  \/ deprecated_param
  \/ validate_input
  \/ get_product_by_id
  \/ read_cookie
  \/ read_header
  \/ read_multi_header

Spec == Init /\ [][Next]_vars

\* ----------------------------------------------------------------- claims

Served(h) == pc = "responded" /\ Handler = h

QueryHas(k) == k \in DOMAIN req.query
QueryText(k) == Last(req.query[k])
ErrorFields(errs) == {e.field : e \in errs}

DeclaredFields(h) ==
  UNION {FieldNames(Schema(h)[i].fields) : i \in 1..Len(Schema(h))}

\* C1: every dispatched request ends in exactly one of two outcomes: no
\* field failed and the handler was called exactly once with every declared
\* field validated, or some field failed, the handler was never called and
\* the response is a validation failure.
C1_AllOrNothing ==
  /\ calls <= 1
  /\ calls = 1 =>
       /\ todo = <<>>
       /\ errors = {}
       /\ DeclaredFields(Handler) \subseteq DOMAIN values
  /\ (pc = "responded" /\ route.kind = "route") =>
       \/ resp.status = 422 /\ calls = 0 /\ errors # {}
       \/ resp.status \in {200, 500} /\ calls = 1 /\ errors = {}

\* A request rejected although one of its two fields validated.
C1_Witness ==
  /\ Served("get_size")
  /\ resp.status = 422
  /\ calls = 0
  /\ "item_id" \in DOMAIN values
  /\ "size" \notin DOMAIN values

SizesItemIdOk ==
  /\ ParseInt(pparams["item_id"]) # None
  /\ Get(ParseInt(pparams["item_id"])) >= 1
  /\ Get(ParseInt(pparams["item_id"])) <= 1000

SizesSizeOk ==
  /\ QueryHas("size")
  /\ ParseFloat(QueryText("size")) # None
  /\ Get(ParseFloat(QueryText("size"))) > 0
  /\ Get(ParseFloat(QueryText("size"))) < 105

FilterLimitOk ==
  \/ ~QueryHas("limit")
  \/ /\ ParseInt(QueryText("limit")) # None
     /\ Get(ParseInt(QueryText("limit"))) > 0
     /\ Get(ParseInt(QueryText("limit"))) <= 100

FilterOffsetOk ==
  \/ ~QueryHas("offset")
  \/ /\ ParseInt(QueryText("offset")) # None
     /\ Get(ParseInt(QueryText("offset"))) >= 0

FilterOrderOk ==
  \/ ~QueryHas("order_by")
  \/ QueryText("order_by") \in {<<"created_at">>, <<"updated_at">>}

\* C2: the validation-failure response lists every invalid field of the
\* request, not only the first: the errors reported are those of all the
\* declared parameters; for GET /sizes/{item_id} exactly the fields among
\* item_id and size that are missing, uncoercible or out of range, and for
\* GET /items-filter/ exactly the invalid ones among limit, offset, order_by.
C2_AllErrorsReported ==
  (pc = "responded" /\ route.kind = "route") =>
    /\ resp.status = 422 =>
         resp.body.detail =
           UNION {ParamResult(Schema(Handler)[i], req, pparams).errs :
                    i \in 1..Len(Schema(Handler))}
    /\ Handler = "get_size" =>
         ErrorFields(errors) =
           (IF SizesItemIdOk THEN {} ELSE {"item_id"})
             \cup (IF SizesSizeOk THEN {} ELSE {"size"})
    /\ Handler = "read_items_filter" =>
         ErrorFields(errors) =
           (IF FilterLimitOk THEN {} ELSE {"limit"})
             \cup (IF FilterOffsetOk THEN {} ELSE {"offset"})
             \cup (IF FilterOrderOk THEN {} ELSE {"order_by"})

\* GET /sizes/{item_id} with both item_id and size out of range reports both.
C2_Witness ==
  /\ Served("get_size")
  /\ resp.status = 422
  /\ ParseInt(pparams["item_id"]) # None
  /\ QueryHas("size")
  /\ ParseFloat(QueryText("size")) # None
  /\ ErrorFields(resp.body.detail) = {"item_id", "size"}

DeclaredCookies == {"session_id", "fatebook_tracker", "googall_tracker"}

\* C3: GET /items/ rejects any request carrying an undeclared cookie with a
\* validation failure and without calling the handler, even when session_id
\* is present; with session_id and only declared cookies it is accepted.
C3_UnknownCookieRejected ==
  Served("read_items_cookies") =>
    /\ ~(DOMAIN req.cookies \subseteq DeclaredCookies) =>
         resp.status = 422 /\ calls = 0
    /\ ("session_id" \in DOMAIN req.cookies
        /\ DOMAIN req.cookies \subseteq DeclaredCookies) => resp.status = 200

\* Whether route i is literal at a position where route j has a parameter.
MoreStatic(i, j) ==
  \E k \in 1..Len(Routes[i].tmpl) :
    /\ k <= Len(Routes[j].tmpl)
    /\ IsLit(Routes[i].tmpl[k])
    /\ ~IsLit(Routes[j].tmpl[k])

StaticWins ==
  pc = "responded" =>
    /\ route.kind = "route" =>
         \A i \in FullMatches(req.method, req.path) : ~MoreStatic(i, route.idx)
    /\ (req.method = "GET" /\ req.path = <<<<"users">>, <<"me">>>>) =>
         /\ Handler = "read_current_user"
         /\ resp = [status |-> 200, body |-> [user_id |-> <<"the current user">>]]

UserItemShortOk == ~QueryHas("short") \/ ParseBool(QueryText("short")) # None

UserItemEcho(user_id, item_id) ==
  resp.body = [user_id |-> user_id, item_id |-> item_id,
               q |-> IF QueryHas("q") THEN Some(QueryText("q")) ELSE None,
               short |-> IF QueryHas("short")
                         THEN Get(ParseBool(QueryText("short"))) ELSE FALSE]

\* C5 as stated: on GET /users/{user_id}/items/{item_id} a non-integer
\* item_id is rejected with a type-coercion failure, q resolves to absent and
\* short to false when not sent, and the response echoes the typed values.
C5_ItemIdIsInt ==
  Served("read_user_item") =>
    /\ ParseInt(pparams["item_id"]) = None =>
         resp.status = 422 /\ Err("item_id", "type") \in errors
    /\ resp.status = 200 =>
         UserItemEcho(pparams["user_id"], Get(ParseInt(pparams["item_id"])))

\* C5 amended: it is user_id that is validated as an integer (a non-integer
\* user_id is rejected with a type-coercion failure) and item_id is any
\* string, echoed as sent; q and short as stated.
C5_UserIdIsInt ==
  Served("read_user_item") =>
    /\ ParseInt(pparams["user_id"]) = None <=> Err("user_id", "type") \in errors
    /\ "item_id" \notin ErrorFields(errors)
    /\ resp.status = 200 <=> (ParseInt(pparams["user_id"]) # None /\ UserItemShortOk)
    /\ resp.status = 200 =>
         UserItemEcho(Get(ParseInt(pparams["user_id"])), pparams["item_id"])

\* A non-integer item_id is accepted, with q and short not sent.
C5_Witness ==
  /\ Served("read_user_item")
  /\ resp.status = 200
  /\ ParseInt(pparams["item_id"]) = None
  /\ ~QueryHas("q")
  /\ ~QueryHas("short")
  /\ resp.body.short = FALSE

\* C6: GET /sizes/{item_id} is accepted if and only if item_id is an integer
\* in [1, 1000] and size is a number with 0 < size < 10.5; on acceptance the
\* response is exactly {item_id, size} with the parsed values.
C6_SizesBounds ==
  Served("get_size") =>
    /\ resp.status \in {200, 422}
    /\ resp.status = 200 <=> (SizesItemIdOk /\ SizesSizeOk)
    /\ resp.status = 200 =>
         resp.body = [item_id |-> Get(ParseInt(pparams["item_id"])),
                      size |-> Get(ParseFloat(QueryText("size")))]

\* size = 10.5 is rejected although item_id = 1000 is in range.
C6_Witness ==
  /\ Served("get_size")
  /\ resp.status = 422
  /\ ParseInt(pparams["item_id"]) = Some(1000)
  /\ QueryHas("size")
  /\ ParseFloat(QueryText("size")) = Some(105)
  /\ ErrorFields(errors) = {"size"}

BodyHas(k) == req.body # None /\ k \in DOMAIN Get(req.body)
BodyGiven(k) == BodyHas(k) /\ ~Tag(Get(req.body)[k], "null")

\* C7: a valid POST /items/ answers with name, description, price and tax
\* (description and tax null when not given) and with price_with_tax if and
\* only if a tax was given (0 included), then equal to price + tax.
C7_PriceWithTax ==
  (Served("create_item") /\ resp.status = 200) =>
    /\ {"name", "description", "price", "tax"} \subseteq DOMAIN resp.body
    /\ DOMAIN resp.body \subseteq
         {"name", "description", "price", "tax", "price_with_tax"}
    /\ resp.body.name = Get(req.body)["name"].str
    /\ resp.body.price = Get(Coerce("float", Get(req.body)["price"]))
    /\ ~BodyGiven("description") => resp.body.description = None
    /\ ~BodyGiven("tax") => resp.body.tax = None
    /\ "price_with_tax" \in DOMAIN resp.body <=> BodyGiven("tax")
    /\ BodyGiven("tax") =>
         /\ resp.body.tax = Some(Get(req.body)["tax"].num)
         /\ resp.body.price_with_tax = resp.body.price + Get(req.body)["tax"].num

\* A tax of 0 is given: price_with_tax is there and equals the price.
C7_Witness ==
  /\ Served("create_item")
  /\ resp.status = 200
  /\ BodyGiven("tax")
  /\ resp.body.tax = Some(0)
  /\ resp.body.price_with_tax = resp.body.price

\* C8: GET /items-filter/ resolves each absent field to its default (limit
\* 100, offset 0, order_by created_at, tags empty), a supplied value is
\* accepted only within 0 < limit <= 100, offset >= 0 and order_by one of
\* created_at, updated_at, and every accepted response is within them.
C8_FilterDefaults ==
  Served("read_items_filter") =>
    /\ resp.status = 200 <=> (FilterLimitOk /\ FilterOffsetOk /\ FilterOrderOk)
    /\ req.query = Empty =>
         resp = [status |-> 200,
                 body |-> [limit |-> 100, offset |-> 0,
                           order_by |-> <<"created_at">>, tags |-> <<>>]]
    /\ resp.status = 200 =>
         /\ resp.body.limit = IF QueryHas("limit")
                              THEN Get(ParseInt(QueryText("limit"))) ELSE 100
         /\ resp.body.offset = IF QueryHas("offset")
                               THEN Get(ParseInt(QueryText("offset"))) ELSE 0
         /\ resp.body.order_by = IF QueryHas("order_by")
                                 THEN QueryText("order_by") ELSE <<"created_at">>
         /\ resp.body.tags = IF QueryHas("tags") THEN req.query["tags"] ELSE <<>>
         /\ resp.body.limit > 0
         /\ resp.body.limit <= 100
         /\ resp.body.offset >= 0
         /\ resp.body.order_by \in {<<"created_at">>, <<"updated_at">>}

\* No query parameter at all: the four defaults come back.
C8_Witness ==
  /\ Served("read_items_filter")
  /\ req.query = Empty
  /\ resp.status = 200
  /\ resp.body.limit = 100

\* C9: every valid PUT /process/{item_id} answers with start_process =
\* start_datetime + process_after and duration = end_datetime - start_process
\* (so start_process + duration = end_datetime), never rejecting, and echoes
\* item_id, start_datetime, end_datetime, process_after and repeat_at.
C9_ProcessAlwaysAnswers ==
  (Served("process_item") /\ errors = {}) =>
    /\ resp.status = 200
    /\ resp.body.start_process.t =
         Get(req.body)["start_datetime"].dt.t + Get(req.body)["process_after"].td
    /\ resp.body.duration =
         Get(req.body)["end_datetime"].dt.t - resp.body.start_process.t
    /\ resp.body.start_process.t + resp.body.duration =
         Get(req.body)["end_datetime"].dt.t
    /\ resp.body.item_id = pparams["item_id"]
    /\ resp.body.start_datetime = Get(req.body)["start_datetime"].dt
    /\ resp.body.end_datetime = Get(req.body)["end_datetime"].dt
    /\ resp.body.process_after = Get(req.body)["process_after"].td
    /\ resp.body.repeat_at =
         IF BodyGiven("repeat_at") THEN Some(Get(req.body)["repeat_at"].tm)
         ELSE None

QGiven == QueryHas("q") /\ QueryText("q") # <<>>

\* C10: a valid PUT /items/{item_id} answers with the item's four fields and
\* item_id, plus the key q if and only if q was sent with a non-empty value;
\* no other key is added or removed.
C10_QOnlyWhenNonEmpty ==
  (Served("update_item") /\ resp.status = 200) =>
    /\ DOMAIN resp.body =
         {"item_id", "name", "description", "price", "tax"}
           \cup (IF QGiven THEN {"q"} ELSE {})
    /\ QGiven => resp.body.q = QueryText("q")
    /\ resp.body.item_id = Get(ParseInt(pparams["item_id"]))
    /\ resp.body.name = Get(req.body)["name"].str
    /\ resp.body.price = Get(req.body)["price"].num
    /\ resp.body.description =
         IF BodyGiven("description")
         THEN Some(Get(req.body)["description"].str) ELSE None
    /\ resp.body.tax =
         IF BodyGiven("tax") THEN Some(Get(req.body)["tax"].num) ELSE None

\* q sent as the empty string: the response has no q key.
C10_Witness ==
  /\ Served("update_item")
  /\ resp.status = 200
  /\ QueryHas("q")
  /\ QueryText("q") = <<>>
  /\ "q" \notin DOMAIN resp.body

====
